---- MODULE Spec2Model ----
(***************************************************************************)
(* RepoChat-AI: the repository ingestion-and-retrieval pipeline.           *)
(*                                                                         *)
(* POST /api/repositories writes a `processing` row and starts             *)
(* embedRepository as a background promise whose then/catch continuation   *)
(* writes the final status.  POST /api/messages answers a question against *)
(* a repository after checking its status.  DELETE /api/repositories/[id]  *)
(* removes the row; the embeddings table cascades.                         *)
(*                                                                         *)
(* Every await of the TypeScript code is one action: between two awaits    *)
(* other requests and background promises may run.  A collaborator call    *)
(* (GitHub, the embedding provider, the database) either returns or fails; *)
(* a failed database statement changes nothing.                            *)
(***************************************************************************)
EXTENDS Integers, Sequences, FiniteSets, TLC

\* ---------------------------------------------------------------- bounds
\* POST /api/repositories requests served (one ingestion run each) while no
\* question is asked.
MaxRepos == 2
\* POST /api/repositories requests served while questions are asked.
MaxAskedRepos == 1
\* POST /api/messages requests served.
MaxQuestions == 1
\* Largest number of insert batches a run needs.
MaxBatches == 2
\* Rows of table embeddings when a search is followed.
MaxStored == 3
\* Largest limit (k) of a search.
MaxK == 2
\* Largest scaled cosine similarity and threshold of a search.
MaxSim == 2
\* Largest number of texts given to embedDocuments.
MaxTexts == 3
\* Messages of the chat before the first request that is followed.
MaxPrior == 11
\* POST /api/messages requests on the chat.
MaxAsks == 2
\* Largest number of fragments given to truncateContext.
MaxFragments == 3
\* Largest number of characters of such a fragment.
MaxChars == 9
\* Largest token budget given to truncateContext.
MaxBudget == 3
\* Largest maxChunks a caller passes to queryRepository.
MaxChunks == 40

\* ------------------------------------------------------ program constants
\* vector-search.ts: const batchSize = 100
batchSize == 100
\* embeddings.ts: const EMBEDDING_DIMENSION = 384
EMBEDDING_DIMENSION == 384
\* route.ts: dbMessages.getChatHistory(chatId, 10)
historyLimit == 10
\* query.ts: chatHistory.slice(-10)
promptTurns == 10
\* query.ts: const MAX_CONTEXT_TOKENS = 16000
MAX_CONTEXT_TOKENS == 16000
\* query.ts: const CHUNK_SIZE = 2000
CHUNK_SIZE == 2000
\* query.ts: const TOP_K_CHUNKS = 10
TOP_K_CHUNKS == 10
\* github.ts: const MAX_FILES = 50
MAX_FILES == 50

Tasks == 1..MaxRepos
RepoIds == 1..MaxRepos
Questions == 1..MaxQuestions

\* Chunk counts a fetched repository may produce: none, half a batch, or
\* enough to end in the middle of the last of MaxBatches batches.
ChunkCounts ==
  {0, batchSize \div 2, MaxBatches * batchSize - batchSize \div 2}

VARIABLES
  posts,       \* number of POST /api/repositories requests served so far
  rows,        \* ids of the rows of table repositories
  status,      \* repositories.status, "none" where there is no row
  errorText,   \* repositories.error
  metaBy,      \* run whose metadata is in the repository row, 0 for none
  embeddings,  \* rows of table embeddings per repository_id: [run, batch]
  task,        \* the background promise of each POST
  question,    \* each POST /api/messages request
  chunkCount,  \* repositories.chunk_count
  searchCall,  \* one call of searchSimilarChunks: its arguments and results
  embedCall,   \* one call of embedDocuments or embedQuery and what follows it
  chatCall,    \* table messages of one chat and the POST /api/messages on it
  promptCall,  \* one call of truncateContext, or one prompt of queryRepository
  fetchCall,   \* one fetchGitHubRepo and the chunks and languages made of it
  progressCall \* one embedRepository run with and without onProgress

vars ==
  <<posts, rows, status, errorText, metaBy, embeddings, task, question,
    chunkCount, searchCall, embedCall, chatCall, promptCall, fetchCall,
    progressCall>>

\* ------------------------------------------------------------- messages
\* An Error's message: its text and, for a failed insert, the batch number.
Message(text, batch) == [text |-> text, batch |-> batch]
NoMessage == Message("", 0)

\* fetchGitHubRepo's throws.
FetchErrors ==
  { Message("Repository not found", 0),
    Message("GitHub API rate limit exceeded. Consider providing a GitHub token.", 0) }

\* RecursiveCharacterTextSplitter.createDocuments rejecting.
ChunkErrors == { Message("splitter failed", 0) }

\* embedDocuments wraps whatever the provider call or the dimension check throws.
EmbedErrors ==
  { Message("Failed to generate document embeddings: provider unavailable", 0),
    Message("Failed to generate document embeddings: Expected embedding dimension 384", 0) }

DeleteError == Message("Failed to delete embeddings: database error", 0)

\* `Failed to store embeddings batch ${i / batchSize + 1}: ...`, i the offset.
StoreError(i) == Message("Failed to store embeddings batch", i \div batchSize + 1)

StatusWriteError == Message("Failed to update repository: database error", 0)

\* ------------------------------------------------------------ the tables
\* An id generator that hands out the same id again.
ReusedRepoId(seq) == 1

\* repoId = `repo_${Date.now()}_${random}`: a fresh id for every request.
NewRepoId(seq) == seq

\* repositories.id is the PRIMARY KEY: an insert of an existing id fails.
PrimaryKeyFree(id) == id \notin rows

\* A row created as already answerable.
InitialStatusReady == "ready"

\* status: "processing" in createRepository's argument.
InitialStatus == "processing"

\* records.slice(i, i + batchSize).length for the batch at offset b*batchSize
\* of n records.
BatchRows(n, b) ==
  IF (b + 1) * batchSize <= n THEN batchSize ELSE n - b * batchSize

\* A stored batch: the rows one insert statement wrote, all or none.  `of`
\* is the number of records the writing run had to store.
Batch(t, b, n) == [run |-> t, batch |-> b, of |-> n]

\* getEmbeddingCount: select count(*) where repository_id = repoId.
RECURSIVE SumRows(_)
SumRows(S) ==
  IF S = {} THEN 0
  ELSE LET e == CHOOSE x \in S : TRUE
       IN BatchRows(e.of, e.batch) + SumRows(S \ {e})

getEmbeddingCount(repoId) == SumRows(embeddings[repoId])

\* UNIQUE (repository_id, chunk_index) and the foreign key to repositories:
\* batch b of a run covers chunk_index b*batchSize .. and collides with any
\* stored batch b of the same repository.
InsertAccepted(repoId, b) ==
  /\ repoId \in rows
  /\ \A e \in embeddings[repoId] : e.batch # b

\* update repositories set status, [error] where id = repoId; no row, no change.
\* No caller passes chunkCount, so chunk_count is never part of the update.
WriteStatus(repoId, st, err) ==
  IF repoId \in rows
  THEN /\ status' = [status EXCEPT ![repoId] = st]
       /\ errorText' = IF err = NoMessage THEN errorText
                       ELSE [errorText EXCEPT ![repoId] = err]
  ELSE UNCHANGED <<status, errorText>>

\* ------------------------------------------------------- embedRepository
\* The old chunks deleted before the new ones are embedded.
DeleteBeforeEmbed(s) ==
  CASE s = "fetch"  -> "chunk"
    [] s = "chunk"  -> "delete"
    [] s = "delete" -> "embed"
    [] s = "embed"  -> "store"
    [] s = "store"  -> "meta"
    [] s = "meta"   -> "resolved"

\* The awaits of embedRepository, in program order.
StepAfter(s) ==
  CASE s = "fetch"  -> "chunk"
    [] s = "chunk"  -> "embed"
    [] s = "embed"  -> "delete"
    [] s = "delete" -> "store"
    [] s = "store"  -> "meta"
    [] s = "meta"   -> "resolved"

\* A batch loop that stops one batch early.
MoreBatchesShort(i, n) == i + batchSize < n

\* The batch loop `for (i = 0; i < records.length; i += batchSize)` goes on.
MoreBatches(i, n) == i < n

\* Where the run stands after step s returned, with n chunks and the insert
\* offset i: the batch loop is left without an await once it has no batch.
Continue(s, n, i) ==
  LET s2 == IF s = "store" THEN "store" ELSE StepAfter(s)
  IN IF s2 = "store" /\ ~MoreBatches(i, n) THEN StepAfter("store") ELSE s2

\* An embedDocuments that goes to the provider whatever it is given.
NeverEmptyBatch(n) == FALSE

\* embedDocuments: if (texts.length === 0) return [] before any provider call.
EmptyBatch(n) == n = 0

NoTask ==
  [pc |-> "none", repoId |-> 0, n |-> 0, i |-> 0, ran |-> {},
   raised |-> NoMessage, raisedAt |-> "", metaFailed |-> FALSE, writes |-> 0,
   providerCalls |-> 0]

Running(t, s) == task[t].pc = s

\* The step s of run t starts: it is recorded in ran.
Started(t, s) == [task[t] EXCEPT !.ran = @ \cup {s}]

\* The step throws e: embedRepository's catch rethrows to the caller's catch;
\* the locals of embedRepository (chunks, the loop index) are gone.
Throws(rec, s, e) ==
  [rec EXCEPT !.pc = "rejected", !.raised = e, !.raisedAt = s, !.n = 0, !.i = 0]

\* The step s returned; embedRepository's locals end with its last step.
Returns(rec, s) ==
  LET to == Continue(s, rec.n, rec.i)
  IN IF to = "resolved"
     THEN [rec EXCEPT !.pc = to, !.n = 0, !.i = 0]
     ELSE [rec EXCEPT !.pc = to]

\* ------------------------------------------------------ POST /api/messages
\* A status check that turns away failed repositories only.
AnswerableUnlessError(st) == st # "error"

\* if (repository.status !== "ready") return 400
Answerable(st) == st = "ready"

\* `${prefix}: ${message}`: a message is the sequence of its parts.
Wrap(prefix, message) == <<prefix>> \o message

\* What queryRepository throws when the search returns no chunk.
NoRelevantText == <<"No relevant sections found for the query">>

\* Messages of the embedding provider client's failures.
EmbeddingProviderTexts ==
  { <<"service unavailable">>, <<"authentication failed">>,
    <<"Expected embedding dimension 384">> }

\* embedQuery: throw new Error(`Failed to generate embedding: ${message}`)
EmbedQueryErrors ==
  { Wrap("Failed to generate embedding", m) : m \in EmbeddingProviderTexts }

\* Messages of the generation provider client's failures.
GenerationProviderTexts ==
  { <<"API key not valid">>, <<"quota exhausted">>, <<"deadline exceeded">>,
    <<"Empty response from Gemini API">> }

\* What generateContent throws itself when the provider's answer has no text.
EmptyResponseText == <<"Empty response from Gemini API">>

\* The words the error handling looks for, in each message part that has one.
KeywordsOf(part) ==
  CASE part = "authentication failed" -> {"authentication"}
    [] part = "API key not valid" -> {"API key"}
    [] part = "quota exhausted" -> {"quota"}
    [] part = "Invalid Gemini API key. Please verify your GOOGLE_AI_API_KEY environment variable."
         -> {"API key"}
    [] part = "Gemini API quota exceeded. Please check your usage limits." -> {"quota"}
    [] part = "Gemini API key is invalid or expired. Please check your GOOGLE_AI_API_KEY environment variable."
         -> {"API key"}
    [] part = "Gemini API quota exceeded. Please check your usage limits or upgrade your plan."
         -> {"quota"}
    [] OTHER -> {}

\* errorMessage.includes(word)
includes(message, word) ==
  \E i \in 1..Len(message) : word \in KeywordsOf(message[i])

\* GeminiClient.generateContent's catch: the message it throws for a failure.
GeminiError(message) ==
  IF includes(message, "API key")
  THEN <<"Invalid Gemini API key. Please verify your GOOGLE_AI_API_KEY environment variable.">>
  ELSE IF includes(message, "quota")
  THEN <<"Gemini API quota exceeded. Please check your usage limits.">>
  ELSE Wrap("Gemini API error", message)

\* queryRepository's catch: throw new Error(`Failed to query repository: ${message}`)
QueryError(message) == Wrap("Failed to query repository", message)

\* An error handling that answers every failure with the same words.
RemapToOneMessage(message) == <<"Something went wrong">>

\* POST /api/messages, catch of the RAG call: the "more helpful" messages.
Remap(message) ==
  IF includes(message, "API key") \/ includes(message, "authentication")
  THEN <<"Gemini API key is invalid or expired. Please check your GOOGLE_AI_API_KEY environment variable.">>
  ELSE IF includes(message, "not configured")
  THEN <<"Gemini API key is not configured. Please set the GOOGLE_AI_API_KEY environment variable.">>
  ELSE IF includes(message, "quota")
  THEN <<"Gemini API quota exceeded. Please check your usage limits or upgrade your plan.">>
  ELSE message

\* The assistant message written for a failed RAG call.
ErrorResponse(message) ==
  Wrap("I encountered an error while processing your question", Remap(message))

NoQuestion ==
  [pc |-> "idle", repoId |-> 0, seen |-> "", userMessage |-> FALSE,
   assistantMessage |-> FALSE, calls |-> {}, settled |-> TRUE, outcome |-> "",
   empty |-> FALSE, response |-> <<>>, raw |-> <<>>]

Asking(q, s) == question[q].pc = s

\* The run t has left the delete-then-insert section without a throw.
Replaced(t) ==
  /\ task[t].pc \in {"meta", "resolved", "rejected", "done", "unhandled"}
  /\ task[t].raisedAt \notin {"fetch", "chunk", "embed", "delete", "store"}

\* The batches 0 .. ceil(n / batchSize) - 1 of a run that stored n records.
AllBatches(t, n) == { Batch(t, b, n) : b \in { c \in 0..MaxBatches + 1 : c * batchSize < n } }

\* The stored chunks of repository r are exactly what one finished
\* delete-then-insert of a run for r wrote.
Settled(r) ==
  \E t \in Tasks :
    /\ task[t].repoId = r
    /\ Replaced(t)
    /\ \/ embeddings[r] = {}
       \/ \E e \in embeddings[r] : embeddings[r] = AllBatches(t, e.of)

\* No call of searchSimilarChunks is being looked at.
NoSearch == [pc |-> "none"]

\* No call of embedDocuments or embedQuery is being looked at.
NoEmbed == [pc |-> "none"]

\* No chat, prompt, fetch or progress callback is being looked at.
NoChat == [pc |-> "none"]
NoPrompt == [pc |-> "none"]
NoFetch == [pc |-> "none"]
NoProgress == [pc |-> "none"]

TypeOK ==
  /\ posts \in 0..MaxRepos
  /\ rows \subseteq RepoIds
  /\ status \in [RepoIds -> {"none", "processing", "ready", "error"}]
  /\ metaBy \in [RepoIds -> 0..MaxRepos]
  /\ \A t \in Tasks : task[t].n \in ChunkCounts
  /\ \A r \in RepoIds : getEmbeddingCount(r) >= 0

Init ==
  /\ posts = 0
  /\ rows = {}
  /\ status = [r \in RepoIds |-> "none"]
  /\ errorText = [r \in RepoIds |-> NoMessage]
  /\ metaBy = [r \in RepoIds |-> 0]
  /\ embeddings = [r \in RepoIds |-> {}]
  /\ task = [t \in Tasks |-> NoTask]
  /\ question = [q \in Questions |-> NoQuestion]
  /\ chunkCount = [r \in RepoIds |-> 0]
  /\ searchCall = NoSearch
  /\ embedCall = NoEmbed
  /\ chatCall = NoChat
  /\ promptCall = NoPrompt
  /\ fetchCall = NoFetch
  /\ progressCall = NoProgress

\* POST /api/repositories: createRepository, then the background promise.
PostRepository(limit) ==
  /\ posts < limit
  /\ posts' = posts + 1
  /\ LET t == posts + 1
         id == NewRepoId(t)
     IN \E dbOk \in BOOLEAN :
          IF dbOk /\ PrimaryKeyFree(id)
          THEN /\ rows' = rows \cup {id}
               /\ status' = [status EXCEPT ![id] = InitialStatus]
               /\ errorText' = [errorText EXCEPT ![id] = NoMessage]
               /\ metaBy' = [metaBy EXCEPT ![id] = 0]
               /\ chunkCount' = [chunkCount EXCEPT ![id] = 0]  \* DEFAULT 0
               /\ task' = [task EXCEPT ![t] = [NoTask EXCEPT !.pc = "fetch", !.repoId = id]]
          ELSE \* createRepository throws: 500, no background promise
               /\ task' = [task EXCEPT ![t] = [NoTask EXCEPT !.pc = "notStarted", !.repoId = id]]
               /\ UNCHANGED <<rows, status, errorText, metaBy, chunkCount>>
  /\ UNCHANGED <<chatCall, promptCall, fetchCall, progressCall, searchCall, embedCall, embeddings, question>>

\* await githubModule.fetchGitHubRepo(owner, repo, token)
Fetch(t) ==
  /\ Running(t, "fetch")
  /\ \/ task' = [task EXCEPT ![t] = Returns(Started(t, "fetch"), "fetch")]
     \/ \E e \in FetchErrors :
          task' = [task EXCEPT ![t] = Throws(Started(t, "fetch"), "fetch", e)]
  /\ UNCHANGED <<chatCall, promptCall, fetchCall, progressCall, chunkCount, searchCall, embedCall, posts, rows, status, errorText, metaBy, embeddings, question>>

\* metadata derivation and await chunkWithMetadata(...) for README and files
Chunk(t) ==
  /\ Running(t, "chunk")
  /\ \/ \E n \in ChunkCounts :
          task' = [task EXCEPT ![t] =
                     Returns([Started(t, "chunk") EXCEPT !.n = n], "chunk")]
     \/ \E e \in ChunkErrors :
          task' = [task EXCEPT ![t] = Throws(Started(t, "chunk"), "chunk", e)]
  /\ UNCHANGED <<chatCall, promptCall, fetchCall, progressCall, chunkCount, searchCall, embedCall, posts, rows, status, errorText, metaBy, embeddings, question>>

\* await embeddingsModule.embedDocuments(chunkTexts, hfToken)
Embed(t) ==
  /\ Running(t, "embed")
  /\ LET called == ~EmptyBatch(task[t].n)
         rec == [Started(t, "embed") EXCEPT !.providerCalls = IF called THEN 1 ELSE 0]
     IN \/ task' = [task EXCEPT ![t] = Returns(rec, "embed")]
        \/ \E e \in EmbedErrors :
             /\ called
             /\ task' = [task EXCEPT ![t] = Throws(rec, "embed", e)]
  /\ UNCHANGED <<chatCall, promptCall, fetchCall, progressCall, chunkCount, searchCall, embedCall, posts, rows, status, errorText, metaBy, embeddings, question>>

\* await vectorSearchModule.deleteRepositoryEmbeddings(client, repoId)
DeleteEmbeddings(t) ==
  /\ Running(t, "delete")
  /\ \/ /\ embeddings' = [embeddings EXCEPT ![task[t].repoId] = {}]
        /\ task' = [task EXCEPT ![t] = Returns(Started(t, "delete"), "delete")]
     \/ /\ task' = [task EXCEPT ![t] = Throws(Started(t, "delete"), "delete", DeleteError)]
        /\ UNCHANGED embeddings
  /\ UNCHANGED <<chatCall, promptCall, fetchCall, progressCall, chunkCount, searchCall, embedCall, posts, rows, status, errorText, metaBy, question>>

\* one `await client.from("embeddings").insert(batch)` of the batch loop
StoreBatch(t) ==
  /\ Running(t, "store")
  /\ LET r == task[t].repoId
         i == task[t].i
         b == i \div batchSize
     IN \/ /\ InsertAccepted(r, b)
           /\ embeddings' = [embeddings EXCEPT ![r] = @ \cup {Batch(t, b, task[t].n)}]
           /\ task' = [task EXCEPT ![t] =
                         Returns([Started(t, "store") EXCEPT !.i = i + batchSize], "store")]
        \/ /\ task' = [task EXCEPT ![t] = Throws(Started(t, "store"), "store", StoreError(i))]
           /\ UNCHANGED embeddings
  /\ UNCHANGED <<chatCall, promptCall, fetchCall, progressCall, chunkCount, searchCall, embedCall, posts, rows, status, errorText, metaBy, question>>

\* storeRepositoryMetadata: the update's error is logged, never thrown.
StoreMetadata(t) ==
  /\ Running(t, "meta")
  /\ LET r == task[t].repoId
     IN \/ /\ metaBy' = IF r \in rows THEN [metaBy EXCEPT ![r] = t] ELSE metaBy
           /\ task' = [task EXCEPT ![t] = Returns(Started(t, "meta"), "meta")]
        \/ /\ task' = [task EXCEPT ![t] =
                         Returns([Started(t, "meta") EXCEPT !.metaFailed = TRUE], "meta")]
           /\ UNCHANGED metaBy
  /\ UNCHANGED <<chatCall, promptCall, fetchCall, progressCall, chunkCount, searchCall, embedCall, posts, rows, status, errorText, embeddings, question>>

\* .then(async () => { await updateRepositoryStatus(repoId, "ready") })
ThenReady(t) ==
  /\ Running(t, "resolved")
  /\ LET r == task[t].repoId
     IN \/ /\ WriteStatus(r, "ready", NoMessage)
           /\ task' = [task EXCEPT ![t].pc = "done",
                                   ![t].writes = @ + (IF r \in rows THEN 1 ELSE 0)]
        \/ /\ task' = [task EXCEPT ![t] = Throws(task[t], "then", StatusWriteError)]
           /\ UNCHANGED <<status, errorText>>
  /\ UNCHANGED <<chatCall, promptCall, fetchCall, progressCall, chunkCount, searchCall, embedCall, posts, rows, metaBy, embeddings, question>>

\* .catch(async (error) => { await updateRepositoryStatus(repoId, "error", error.message) })
CatchError(t) ==
  /\ Running(t, "rejected")
  /\ LET r == task[t].repoId
     IN \/ /\ WriteStatus(r, "error", task[t].raised)
           /\ task' = [task EXCEPT ![t].pc = "done",
                                   ![t].writes = @ + (IF r \in rows THEN 1 ELSE 0)]
        \/ \* the write throws inside the catch handler: nothing handles it
           /\ task' = [task EXCEPT ![t].pc = "unhandled"]
           /\ UNCHANGED <<status, errorText>>
  /\ UNCHANGED <<chatCall, promptCall, fetchCall, progressCall, chunkCount, searchCall, embedCall, posts, rows, metaBy, embeddings, question>>

\* DELETE /api/repositories/[id]: deleteRepository, ON DELETE CASCADE
DeleteRepository(r) ==
  /\ r \in rows
  /\ rows' = rows \ {r}
  /\ status' = [status EXCEPT ![r] = "none"]
  /\ errorText' = [errorText EXCEPT ![r] = NoMessage]
  /\ metaBy' = [metaBy EXCEPT ![r] = 0]
  /\ embeddings' = [embeddings EXCEPT ![r] = {}]
  /\ chunkCount' = [chunkCount EXCEPT ![r] = 0]
  /\ UNCHANGED <<chatCall, promptCall, fetchCall, progressCall, searchCall, embedCall, posts, task, question>>

\* POST /api/messages up to the status check: getChat, getRepository.
Ask(q, r) ==
  /\ Asking(q, "idle")
  /\ \E dbOk \in BOOLEAN :
       question' = [question EXCEPT ![q] =
         IF ~dbOk \/ r \notin rows
         THEN [@ EXCEPT !.pc = "notFound", !.repoId = r]
         ELSE [@ EXCEPT !.repoId = r, !.seen = status[r],
                        !.pc = IF Answerable(status[r]) THEN "userMessage" ELSE "notReady"]]
  /\ UNCHANGED <<chatCall, promptCall, fetchCall, progressCall, chunkCount, searchCall, embedCall, posts, rows, status, errorText, metaBy, embeddings, task>>

\* await dbMessages.createMessage({role: "user"}); getChatHistory
CreateUserMessage(q) ==
  /\ Asking(q, "userMessage")
  /\ \/ question' = [question EXCEPT ![q].userMessage = TRUE, ![q].pc = "embedQuery"]
     \/ question' = [question EXCEPT ![q].pc = "serverError"]
  /\ UNCHANGED <<chatCall, promptCall, fetchCall, progressCall, chunkCount, searchCall, embedCall, posts, rows, status, errorText, metaBy, embeddings, task>>

\* queryRepository: await embeddingsModule.embedQuery(question, hfToken)
EmbedQuery(q) ==
  /\ Asking(q, "embedQuery")
  /\ \/ question' = [question EXCEPT ![q].calls = @ \cup {"embed"}, ![q].pc = "metadata"]
     \/ \E e \in EmbedQueryErrors :
          question' = [question EXCEPT ![q].calls = @ \cup {"embed"},
                                       ![q].outcome = "embedFailed",
                                       ![q].response = ErrorResponse(QueryError(e)),
                                       ![q].pc = "assistantMessage"]
  /\ UNCHANGED <<chatCall, promptCall, fetchCall, progressCall, chunkCount, searchCall, embedCall, posts, rows, status, errorText, metaBy, embeddings, task>>

\* queryRepository: await getRepositoryMetadata(client, repoId), which never throws
GetMetadata(q) ==
  /\ Asking(q, "metadata")
  /\ question' = [question EXCEPT ![q].pc = "search"]
  /\ UNCHANGED <<chatCall, promptCall, fetchCall, progressCall, chunkCount, searchCall, embedCall, posts, rows, status, errorText, metaBy, embeddings, task>>

\* queryRepository: await searchSimilarChunks(client, repoId, vector, k, 0.0)
Search(q) ==
  /\ Asking(q, "search")
  /\ LET r == question[q].repoId
         searched == [question[q] EXCEPT !.calls = @ \cup {"search"}]
     IN \/ \* some chunks are returned, or none of the stored ones matches
           \E any \in IF embeddings[r] = {} THEN {FALSE} ELSE BOOLEAN :
             question' = [question EXCEPT ![q] =
               [searched EXCEPT
                  !.settled = (r \notin rows) \/ Settled(r),
                  !.empty = embeddings[r] = {},
                  !.outcome = IF any THEN "" ELSE "noRelevant",
                  !.response = IF any THEN <<>>
                               ELSE ErrorResponse(QueryError(NoRelevantText)),
                  !.pc = IF any THEN "generate" ELSE "assistantMessage"]]
        \/ question' = [question EXCEPT ![q] =
             [searched EXCEPT
                !.outcome = "searchFailed",
                !.response = ErrorResponse(QueryError(
                               <<"Fallback search failed", "database error">>)),
                !.pc = "assistantMessage"]]
  /\ UNCHANGED <<chatCall, promptCall, fetchCall, progressCall, chunkCount, searchCall, embedCall, posts, rows, status, errorText, metaBy, embeddings, task>>

\* queryRepository: await geminiClient.generateContent(...)
Generate(q) ==
  /\ Asking(q, "generate")
  /\ \/ question' = [question EXCEPT ![q].calls = @ \cup {"generate"},
                                       ![q].outcome = "answered",
                                       ![q].response = <<"answer">>,
                                       ![q].pc = "assistantMessage"]
     \/ \E m \in GenerationProviderTexts :
          question' = [question EXCEPT ![q].calls = @ \cup {"generate"},
                                       ![q].outcome = "generateFailed",
                                       ![q].raw = IF m = EmptyResponseText THEN <<>> ELSE m,
                                       ![q].response = ErrorResponse(QueryError(GeminiError(m))),
                                       ![q].pc = "assistantMessage"]
  /\ UNCHANGED <<chatCall, promptCall, fetchCall, progressCall, chunkCount, searchCall, embedCall, posts, rows, status, errorText, metaBy, embeddings, task>>

\* await dbMessages.createMessage({role: "assistant"}); updateChatTimestamp
CreateAssistantMessage(q) ==
  /\ Asking(q, "assistantMessage")
  /\ \/ question' = [question EXCEPT ![q].assistantMessage = TRUE, ![q].pc = "done"]
     \/ question' = [question EXCEPT ![q].pc = "serverError"]
  /\ UNCHANGED <<chatCall, promptCall, fetchCall, progressCall, chunkCount, searchCall, embedCall, posts, rows, status, errorText, metaBy, embeddings, task>>

\* The background promises and the DELETE requests.
NextRun ==
  \/ \E t \in Tasks : Fetch(t)
  \/ \E t \in Tasks : Chunk(t)
  \/ \E t \in Tasks : Embed(t)
  \/ \E t \in Tasks : DeleteEmbeddings(t)
  \/ \E t \in Tasks : StoreBatch(t)
  \/ \E t \in Tasks : StoreMetadata(t)
  \/ \E t \in Tasks : ThenReady(t)
  \/ \E t \in Tasks : CatchError(t)
  \/ \E r \in RepoIds : DeleteRepository(r)

\* The question side.
NextAsk ==
  \/ \E q \in Questions, r \in RepoIds : Ask(q, r)
  \/ \E q \in Questions : CreateUserMessage(q)
  \/ \E q \in Questions : EmbedQuery(q)
  \/ \E q \in Questions : GetMetadata(q)
  \/ \E q \in Questions : Search(q)
  \/ \E q \in Questions : Generate(q)
  \/ \E q \in Questions : CreateAssistantMessage(q)

\* The program while no question is asked.
NextIngest == PostRepository(MaxRepos) \/ NextRun

\* The whole program.
Next == PostRepository(MaxAskedRepos) \/ NextRun \/ NextAsk

Spec == Init /\ [][Next]_vars

SpecIngest == Init /\ [][NextIngest]_vars

\* The steps of run t that the event loop and the database carry out: every
\* await of the run except the call to the embedding provider.
RunStep(t) ==
  \/ Fetch(t) \/ Chunk(t) \/ DeleteEmbeddings(t) \/ StoreBatch(t)
  \/ StoreMetadata(t) \/ ThenReady(t) \/ CatchError(t)

\* The steps of request q except the calls to the embedding and generation
\* providers.
AskStep(q) ==
  \/ CreateUserMessage(q) \/ GetMetadata(q) \/ Search(q)
  \/ CreateAssistantMessage(q)

\* The program on a fair event loop: a continuation that can run does run.
\* Nothing makes a provider answer: embedDocuments, embedQuery and
\* generateContent are awaited with no timer beside them.
SpecLive ==
  /\ Init /\ [][Next]_vars
  /\ \A t \in Tasks : WF_vars(RunStep(t))
  /\ \A q \in Questions : WF_vars(AskStep(q))

\* ------------------------------------------------- searchSimilarChunks
\* One call of searchSimilarChunks is followed through the rpc or the
\* fallback and on into buildRichContext.  A stored row carries, in place of
\* its embedding, the cosine similarity of that embedding with the query
\* vector; 1 - (embedding <=> query) and cosineSimilarity compute the same
\* number from the same two vectors.
Tenants == {1, 2}
Slots == 1..MaxStored
Sims == -1..MaxSim
Limits == 1..MaxK

\* A chunk text with no trace of the file it came from.
chunkWithoutPath(file, content) == [file |-> "", content |-> content]

\* text: `File: ${filePath}\n\n${doc.pageContent}`
chunkWithMetadata(file, content) == [file |-> file, content |-> content]

\* The file the chunk in slot s was cut from.
FileOf(s) == IF s % 2 = 1 THEN "README.md" ELSE "src/index.ts"

\* The row of table embeddings in slot s: its columns as migration 001 has
\* them (no file_path column).
Row(s, repo, sim) ==
  [repository_id |-> repo, chunk_index |-> s - 1,
   text |-> chunkWithMetadata(FileOf(s), s), sim |-> sim]

Min(a, b) == IF a < b THEN a ELSE b

\* The first k of the rows E in an order of non-increasing similarity: every
\* way ORDER BY ... LIMIT k, or sort then slice(0, k), may come out.
TopK(E, k) ==
  LET n == Min(k, Cardinality(E))
  IN { res \in [1..n -> E] :
         /\ \A i \in 1..n, j \in 1..n : i < j =>
              /\ res[i] # res[j]
              /\ res[i].sim >= res[j].sim
         /\ \A x \in E : (\A i \in 1..n : res[i] # x) =>
              \A i \in 1..n : res[i].sim >= x.sim }

\* WHERE 1 - (e.embedding <=> query_embedding) > match_threshold
Matches(sim, threshold) == sim > threshold

\* A filter that keeps every row.
PassesAll(sim, threshold) == TRUE

\* if (similarity >= threshold) results.push(...)
Passes(sim, threshold) == sim >= threshold

\* match_embeddings: WHERE repository_id = ..., ORDER BY distance, LIMIT count.
match_embeddings(table, repo, threshold, count) ==
  TopK({x \in table : x.repository_id = repo /\ Matches(x.sim, threshold)}, count)

\* A select with no repository filter.
FetchedFromAnyRepository(table, repo, limit) ==
  { F \in SUBSET table : Cardinality(F) = Min(2 * limit, Cardinality(table)) }

\* .from("embeddings").select(...).eq("repository_id", repoId).limit(limit * 2):
\* with no ORDER BY, any limit * 2 of the repository's rows.
Fetched(table, repo, limit) ==
  LET mine == {x \in table : x.repository_id = repo}
  IN { F \in SUBSET mine : Cardinality(F) = Min(2 * limit, Cardinality(mine)) }

\* searchSimilarChunksFallback: filter the fetched rows, sort, slice(0, limit).
searchSimilarChunksFallback(table, repo, limit, threshold) ==
  UNION { TopK({x \in F : Passes(x.sim, threshold)}, limit) :
            F \in Fetched(table, repo, limit) }

\* The SimilarChunk made of a returned row; neither the rpc nor the fallback
\* select returns a file_path, so `item.file_path || null` is null.
SimilarChunk(item) ==
  [chunk_text |-> item.text, similarity |-> item.sim,
   file_path |-> "null", chunk_index |-> item.chunk_index]

\* buildRichContext's "Relevant Code Sections": one section per chunk, in order.
buildRichContext(chunks) ==
  [i \in 1..Len(chunks) |->
     [rank |-> i,
      heading |-> IF chunks[i].file_path = "null" THEN "Unknown file"
                  ELSE chunks[i].file_path,
      similarity |-> chunks[i].similarity,
      body |-> chunks[i].chunk_text]]

\* The tables, repository id, limit and threshold a call may meet.
SearchInputs ==
  { [pc |-> "call", table |-> {Row(s, f[s][1], f[s][2]) : s \in Slots},
     repoId |-> r, limit |-> k, threshold |-> th,
     path |-> "", results |-> <<>>, context |-> <<>>] :
      f \in [Slots -> Tenants \X Sims], r \in Tenants, k \in Limits,
      th \in 0..MaxSim }

InitSearch ==
  /\ posts = 0
  /\ rows = {}
  /\ status = [r \in RepoIds |-> "none"]
  /\ errorText = [r \in RepoIds |-> NoMessage]
  /\ metaBy = [r \in RepoIds |-> 0]
  /\ embeddings = [r \in RepoIds |-> {}]
  /\ task = [t \in Tasks |-> NoTask]
  /\ question = [q \in Questions |-> NoQuestion]
  /\ chunkCount = [r \in RepoIds |-> 0]
  /\ embedCall = NoEmbed
  /\ searchCall \in SearchInputs
  /\ chatCall = NoChat
  /\ promptCall = NoPrompt
  /\ fetchCall = NoFetch
  /\ progressCall = NoProgress

\* The result rows become SimilarChunks.
Found(c, path, res) ==
  [c EXCEPT !.pc = "found", !.path = path,
            !.results = [i \in 1..Len(res) |-> SimilarChunk(res[i])]]

\* searchSimilarChunks when client.rpc("match_embeddings") answers.
SearchByRpc ==
  /\ searchCall.pc = "call"
  /\ \E res \in match_embeddings(searchCall.table, searchCall.repoId,
                                 searchCall.threshold, searchCall.limit) :
       searchCall' = Found(searchCall, "rpc", res)
  /\ UNCHANGED <<chatCall, promptCall, fetchCall, progressCall, posts, rows, status, errorText, metaBy, embeddings, task,
                 question, chunkCount, embedCall>>

\* searchSimilarChunks when the rpc returns an error: the fallback runs.
SearchByFallback ==
  /\ searchCall.pc = "call"
  /\ \/ \E res \in searchSimilarChunksFallback(searchCall.table, searchCall.repoId,
                                               searchCall.limit, searchCall.threshold) :
          searchCall' = Found(searchCall, "fallback", res)
     \/ \* `Fallback search failed`: thrown to queryRepository
        searchCall' = [searchCall EXCEPT !.pc = "failed", !.path = "fallback"]
  /\ UNCHANGED <<chatCall, promptCall, fetchCall, progressCall, posts, rows, status, errorText, metaBy, embeddings, task,
                 question, chunkCount, embedCall>>

\* queryRepository after the search: no chunk throws, else the context is built.
BuildContext ==
  /\ searchCall.pc = "found"
  /\ searchCall' =
       IF Len(searchCall.results) = 0
       THEN [searchCall EXCEPT !.pc = "noRelevant"]
       ELSE [searchCall EXCEPT !.pc = "prompted",
                               !.context = buildRichContext(searchCall.results)]
  /\ UNCHANGED <<chatCall, promptCall, fetchCall, progressCall, posts, rows, status, errorText, metaBy, embeddings, task,
                 question, chunkCount, embedCall>>

NextSearch == SearchByRpc \/ SearchByFallback \/ BuildContext

SpecSearch == InitSearch /\ [][NextSearch]_vars

\* ------------------------------------------- embedDocuments, embedQuery
\* One call of embedDocuments is followed into the insert of the records that
\* embedRepository builds from its result, and one call of embedQuery into
\* searchSimilarChunks.  A vector is its length and the text it was computed
\* for; the provider answers with vectors in the order of the texts, but how
\* many it returns and of what length is the provider's doing.
Dimensions ==
  {EMBEDDING_DIMENSION - 1, EMBEDDING_DIMENSION, EMBEDDING_DIMENSION + 1}

Vector(text, dim) == [for |-> text, dim |-> dim]

\* chunks[i] paired with no vector: vectors[i] is undefined.
Undefined == Vector(0, 0)

\* What the provider may answer for n texts: one vector too few, one per
\* text, or one too many.
Replies(n) ==
  UNION { { [i \in 1..m |-> Vector(i, d[i])] : d \in [1..m -> Dimensions] } :
            m \in {k \in {n - 1, n, n + 1} : k >= 0} }

\* A validation that looks at the first vector only.
FirstValid(vectors) ==
  Len(vectors) = 0 \/ vectors[1].dim = EMBEDDING_DIMENSION

\* for (i = 0; i < vectors.length; i++)
\*   if (vectors[i].length !== EMBEDDING_DIMENSION) throw
AllValid(vectors) ==
  \A i \in 1..Len(vectors) : vectors[i].dim = EMBEDDING_DIMENSION

\* chunks.map((chunk, i) => ({ text, embedding: vectors[i], chunkIndex: i }))
Records(n, vectors) ==
  [i \in 1..n |->
     [chunkIndex |-> i - 1, text |-> i,
      embedding |-> IF i <= Len(vectors) THEN vectors[i] ELSE Undefined]]

\* embedding vector(384) NOT NULL: what the table takes.
ColumnAccepts(v) == v # Undefined /\ v.dim = EMBEDDING_DIMENSION

EmbedInputs ==
  { [pc |-> "call", kind |-> "documents", n |-> n, reply |-> <<>>,
     vectors |-> <<>>, stored |-> <<>>, searched |-> FALSE] : n \in 0..MaxTexts }
  \cup
  { [pc |-> "call", kind |-> "query", n |-> 1, reply |-> <<>>,
     vectors |-> <<>>, stored |-> <<>>, searched |-> FALSE] }

InitEmbed ==
  /\ posts = 0
  /\ rows = {}
  /\ status = [r \in RepoIds |-> "none"]
  /\ errorText = [r \in RepoIds |-> NoMessage]
  /\ metaBy = [r \in RepoIds |-> 0]
  /\ embeddings = [r \in RepoIds |-> {}]
  /\ task = [t \in Tasks |-> NoTask]
  /\ question = [q \in Questions |-> NoQuestion]
  /\ chunkCount = [r \in RepoIds |-> 0]
  /\ searchCall = NoSearch
  /\ embedCall \in EmbedInputs
  /\ chatCall = NoChat
  /\ promptCall = NoPrompt
  /\ fetchCall = NoFetch
  /\ progressCall = NoProgress

\* embedDocuments(texts): [] for no texts, else the provider's vectors, each
\* one validated; the number of vectors is not compared with texts.length.
EmbedDocuments ==
  /\ embedCall.pc = "call" /\ embedCall.kind = "documents"
  /\ \/ /\ EmptyBatch(embedCall.n)
        /\ embedCall' = [embedCall EXCEPT !.pc = "embedded"]
     \/ /\ ~EmptyBatch(embedCall.n)
        /\ \/ \E r \in Replies(embedCall.n) :
                embedCall' =
                  IF AllValid(r)
                  THEN [embedCall EXCEPT !.pc = "embedded", !.reply = r, !.vectors = r]
                  ELSE [embedCall EXCEPT !.pc = "failed", !.reply = r]
           \/ \* the provider call throws
              embedCall' = [embedCall EXCEPT !.pc = "failed"]
  /\ UNCHANGED <<chatCall, promptCall, fetchCall, progressCall, posts, rows, status, errorText, metaBy, embeddings, task,
                 question, chunkCount, searchCall>>

\* embedRepository: the records built from chunks and vectors are inserted.
StoreRecords ==
  /\ embedCall.pc = "embedded" /\ embedCall.kind = "documents"
  /\ LET records == Records(embedCall.n, embedCall.vectors)
     IN embedCall' =
          IF \A i \in 1..Len(records) : ColumnAccepts(records[i].embedding)
          THEN [embedCall EXCEPT !.pc = "stored", !.stored = records]
          ELSE [embedCall EXCEPT !.pc = "failed"]
  /\ UNCHANGED <<chatCall, promptCall, fetchCall, progressCall, posts, rows, status, errorText, metaBy, embeddings, task,
                 question, chunkCount, searchCall>>

\* embedQuery(text): the provider's vector, validated.
EmbedQueryVector ==
  /\ embedCall.pc = "call" /\ embedCall.kind = "query"
  /\ \/ \E d \in Dimensions :
          LET r == <<Vector(1, d)>>
          IN embedCall' =
               IF r[1].dim = EMBEDDING_DIMENSION
               THEN [embedCall EXCEPT !.pc = "embedded", !.reply = r, !.vectors = r]
               ELSE [embedCall EXCEPT !.pc = "failed", !.reply = r]
     \/ embedCall' = [embedCall EXCEPT !.pc = "failed"]
  /\ UNCHANGED <<chatCall, promptCall, fetchCall, progressCall, posts, rows, status, errorText, metaBy, embeddings, task,
                 question, chunkCount, searchCall>>

\* searchSimilarChunks: the query vector's length is checked, then the rpc.
SearchWithVector ==
  /\ embedCall.pc = "embedded" /\ embedCall.kind = "query"
  /\ embedCall' =
       IF embedCall.vectors[1].dim = EMBEDDING_DIMENSION
       THEN [embedCall EXCEPT !.pc = "searched", !.searched = TRUE]
       ELSE [embedCall EXCEPT !.pc = "failed"]
  /\ UNCHANGED <<chatCall, promptCall, fetchCall, progressCall, posts, rows, status, errorText, metaBy, embeddings, task,
                 question, chunkCount, searchCall>>

NextEmbed ==
  EmbedDocuments \/ StoreRecords \/ EmbedQueryVector \/ SearchWithVector

SpecEmbed == InitEmbed /\ [][NextEmbed]_vars

\* ---------------------------------------------- the messages of a chat
\* The POST /api/messages requests on one chat of a ready repository are
\* followed from createMessage to createMessage.  table messages is the
\* sequence of the chat's rows in created_at order; a content is what the row
\* says: an earlier turn, the question of a request, its answer or the error
\* response written for it.
Asks == 1..MaxAsks

ChatMessage(role, kind, of) ==
  [role |-> role, content |-> [kind |-> kind, of |-> of]]

\* The chat as earlier requests left it: user and assistant rows in turn.
Prior(n) ==
  [i \in 1..n |->
     ChatMessage(IF i % 2 = 1 THEN "user" ELSE "assistant", "prior", i)]

\* s.slice(-n)
Last(s, n) == IF Len(s) <= n THEN s ELSE SubSeq(s, Len(s) - n + 1, Len(s))

\* getChatHistory: messages.slice(-limit).map(role, content)
getChatHistory(messages, limit) == Last(messages, limit)

\* queryRepository's messages: the last turns of chatHistory with assistant
\* renamed model, then the question.
PromptMessages(chatHistory, a) ==
  LET turns == Last(chatHistory, promptTurns)
  IN [i \in 1..Len(turns) |->
        [role |-> IF turns[i].role = "assistant" THEN "model" ELSE "user",
         content |-> turns[i].content]]
     \o <<[role |-> "user", content |-> [kind |-> "question", of |-> a]]>>

NoAsk ==
  [pc |-> "idle", chatHistory |-> <<>>, sent |-> <<>>, outcome |-> ""]

ChatInputs ==
  { [pc |-> "chat", messages |-> Prior(n), ask |-> [a \in Asks |-> NoAsk]] :
      n \in 0..MaxPrior }

\* Every variable of the pipeline as construction leaves it, and no search or
\* embedding call looked at.
Quiet ==
  /\ posts = 0
  /\ rows = {}
  /\ status = [r \in RepoIds |-> "none"]
  /\ errorText = [r \in RepoIds |-> NoMessage]
  /\ metaBy = [r \in RepoIds |-> 0]
  /\ embeddings = [r \in RepoIds |-> {}]
  /\ task = [t \in Tasks |-> NoTask]
  /\ question = [q \in Questions |-> NoQuestion]
  /\ chunkCount = [r \in RepoIds |-> 0]
  /\ searchCall = NoSearch
  /\ embedCall = NoEmbed

InitChat ==
  /\ Quiet
  /\ chatCall \in ChatInputs
  /\ promptCall = NoPrompt
  /\ fetchCall = NoFetch
  /\ progressCall = NoProgress

\* The request a moves on to pc with the fields of rec.
ChatStep(a, rec) == [chatCall EXCEPT !.ask[a] = rec]

\* await dbMessages.createMessage({role: "user", content})
ChatCreateUserMessage(a) ==
  /\ chatCall.ask[a].pc = "idle"
  /\ \/ chatCall' =
          [ChatStep(a, [chatCall.ask[a] EXCEPT !.pc = "history"])
             EXCEPT !.messages = Append(@, ChatMessage("user", "question", a))]
     \/ \* createMessage throws: 500
        chatCall' = ChatStep(a, [chatCall.ask[a] EXCEPT !.pc = "serverError"])
  /\ UNCHANGED <<posts, rows, status, errorText, metaBy, embeddings, task,
                 question, chunkCount, searchCall, embedCall, promptCall,
                 fetchCall, progressCall>>

\* await dbMessages.getChatHistory(chatId, 10); getChatMessages answers []
\* when its select fails.
ChatGetHistory(a) ==
  /\ chatCall.ask[a].pc = "history"
  /\ \E dbOk \in BOOLEAN :
       chatCall' = ChatStep(a,
         [chatCall.ask[a] EXCEPT
            !.pc = "query",
            !.chatHistory = IF dbOk THEN getChatHistory(chatCall.messages, historyLimit)
                            ELSE <<>>])
  /\ UNCHANGED <<posts, rows, status, errorText, metaBy, embeddings, task,
                 question, chunkCount, searchCall, embedCall, promptCall,
                 fetchCall, progressCall>>

\* response = await ragClient.queryRepository({repoId, question, chatHistory}),
\* or the catch's error response.
ChatQuery(a) ==
  /\ chatCall.ask[a].pc = "query"
  /\ \/ \* embedQuery or the search throws, or no chunk is found
        chatCall' = ChatStep(a,
          [chatCall.ask[a] EXCEPT !.pc = "assistantMessage", !.outcome = "failed"])
     \/ \E answered \in BOOLEAN :
          chatCall' = ChatStep(a,
            [chatCall.ask[a] EXCEPT
               !.pc = "assistantMessage",
               !.sent = PromptMessages(chatCall.ask[a].chatHistory, a),
               !.outcome = IF answered THEN "answered" ELSE "failed"])
  /\ UNCHANGED <<posts, rows, status, errorText, metaBy, embeddings, task,
                 question, chunkCount, searchCall, embedCall, promptCall,
                 fetchCall, progressCall>>

\* await dbMessages.createMessage({role: "assistant", content: response})
ChatCreateAssistantMessage(a) ==
  /\ chatCall.ask[a].pc = "assistantMessage"
  /\ \/ chatCall' =
          [ChatStep(a, [chatCall.ask[a] EXCEPT !.pc = "done"])
             EXCEPT !.messages =
               Append(@, ChatMessage("assistant",
                                     IF chatCall.ask[a].outcome = "answered"
                                     THEN "answer" ELSE "error", a))]
     \/ chatCall' = ChatStep(a, [chatCall.ask[a] EXCEPT !.pc = "serverError"])
  /\ UNCHANGED <<posts, rows, status, errorText, metaBy, embeddings, task,
                 question, chunkCount, searchCall, embedCall, promptCall,
                 fetchCall, progressCall>>

NextChat ==
  \/ \E a \in Asks : ChatCreateUserMessage(a)
  \/ \E a \in Asks : ChatGetHistory(a)
  \/ \E a \in Asks : ChatQuery(a)
  \/ \E a \in Asks : ChatCreateAssistantMessage(a)

SpecChat == InitChat /\ [][NextChat]_vars

\* ------------------------------------------ truncateContext, the prompt
\* One call of truncateContext, or one queryRepository from the chunks its
\* search returned to the system prompt.  A text is its number of characters
\* and the position it had in the input.
Fragment(i, chars) == [id |-> i, chars |-> chars]

\* estimateTokens: Math.ceil(text.length / 4)
estimateTokens(chars) == (chars + 3) \div 4

\* A loop that goes on to the next fragment (`continue`).
SkipFragment(rest) == rest

\* `break`: no fragment after the one that overflows is looked at.
Break(rest) == <<>>

\* truncateContext's loop over the fragments left, totalTokens so far.
RECURSIVE truncateLoop(_, _, _)
truncateLoop(chunks, totalTokens, maxTokens) ==
  IF chunks = <<>> THEN <<>>
  ELSE LET chunkTokens == estimateTokens(Head(chunks).chars)
       IN IF totalTokens + chunkTokens > maxTokens
          THEN truncateLoop(Break(Tail(chunks)), totalTokens, maxTokens)
          ELSE <<Head(chunks)>>
               \o truncateLoop(Tail(chunks), totalTokens + chunkTokens, maxTokens)

truncateContext(chunks, maxTokens) == truncateLoop(chunks, 0, maxTokens)

\* The chunks a search with limit n returned, each of the given length.
Retrieved(n, chars) ==
  [i \in 1..n |->
     [chunk_text |-> Fragment(i, chars), similarity |-> 0,
      file_path |-> "null", chunk_index |-> i - 1]]

PromptInputs ==
  { [pc |-> "call", kind |-> "truncate",
     chunks |-> [i \in 1..Len(c) |-> Fragment(i, c[i])], maxTokens |-> b,
     result |-> <<>>, context |-> <<>>] :
      c \in UNION { [1..n -> 0..MaxChars] : n \in 0..MaxFragments },
      b \in 0..MaxBudget }
  \cup
  { [pc |-> "call", kind |-> "query", chunks |-> Retrieved(n, chars),
     maxTokens |-> MAX_CONTEXT_TOKENS, result |-> <<>>, context |-> <<>>] :
      n \in {1, TOP_K_CHUNKS, MaxChunks},
      chars \in {CHUNK_SIZE \div 2, CHUNK_SIZE} }

InitPrompt ==
  /\ Quiet
  /\ chatCall = NoChat
  /\ promptCall \in PromptInputs
  /\ fetchCall = NoFetch
  /\ progressCall = NoProgress

\* truncateContext(chunks, maxTokens)
TruncateContext ==
  /\ promptCall.pc = "call" /\ promptCall.kind = "truncate"
  /\ promptCall' =
       [promptCall EXCEPT
          !.pc = "truncated",
          !.result = truncateContext(promptCall.chunks, promptCall.maxTokens)]
  /\ UNCHANGED <<posts, rows, status, errorText, metaBy, embeddings, task,
                 question, chunkCount, searchCall, embedCall, chatCall,
                 fetchCall, progressCall>>

\* queryRepository: context = buildRichContext(similarChunks, metadata), put
\* whole into buildEnhancedSystemPrompt; truncateContext is not called.
BuildPrompt ==
  /\ promptCall.pc = "call" /\ promptCall.kind = "query"
  /\ promptCall' =
       [promptCall EXCEPT !.pc = "prompted",
                          !.context = buildRichContext(promptCall.chunks)]
  /\ UNCHANGED <<posts, rows, status, errorText, metaBy, embeddings, task,
                 question, chunkCount, searchCall, embedCall, chatCall,
                 fetchCall, progressCall>>

NextPrompt == TruncateContext \/ BuildPrompt

SpecPrompt == InitPrompt /\ [][NextPrompt]_vars

\* ------------------------------- fetchGitHubRepo, chunks and languages
\* One embedRepository is followed from fetchGitHubRepo to the records it
\* hands to the store.  The repository is its git tree: blob paths in listing
\* order.  A listed file's fetch returns its content or fails.
AllPaths ==
  <<"LICENSE", "README.md", "main.py", "src/a.ts", "src/b.ts", "src/c.tsx">>

\* path.split(".").pop().toLowerCase()
ExtensionOf(path) ==
  CASE path = "README.md" -> "md"
    [] path = "main.py" -> "py"
    [] path = "src/a.ts" -> "ts"
    [] path = "src/b.ts" -> "ts"
    [] path = "src/c.tsx" -> "tsx"
    [] OTHER -> "license"

SUPPORTED_EXTENSIONS ==
  {"md", "txt", "js", "ts", "tsx", "jsx", "py", "go", "java", "rs", "cpp",
   "c", "h", "json", "yaml", "yml", "html", "css", "scss", "sql", "sh", "bash"}

\* SUPPORTED_EXTENSIONS.some(ext => path.toLowerCase().endsWith(ext))
isSupportedFile(path) == ExtensionOf(path) \in SUPPORTED_EXTENSIONS

\* langMap[ext]
langMap(ext) ==
  CASE ext \in {"ts", "tsx"} -> "TypeScript"
    [] ext \in {"js", "jsx"} -> "JavaScript"
    [] ext = "py" -> "Python"
    [] ext = "java" -> "Java"
    [] ext = "go" -> "Go"
    [] ext = "rs" -> "Rust"
    [] ext = "cpp" -> "C++"
    [] ext = "c" -> "C"
    [] OTHER -> "undefined"

\* The elements of a sequence.
Range(s) == {s[i] : i \in 1..Len(s)}

\* new Set<string>() filled by files.forEach: the extensions in the order of
\* their first file.
RECURSIVE extensions(_)
extensions(files) ==
  IF files = <<>> THEN <<>>
  ELSE LET before == extensions(SubSeq(files, 1, Len(files) - 1))
           ext == ExtensionOf(files[Len(files)])
       IN IF ext \in Range(before) THEN before ELSE Append(before, ext)

\* extractLanguages: Array.from(extensions).map(ext => langMap[ext]).filter(Boolean)
extractLanguages(files) ==
  LET exts == extensions(files)
      names == [i \in 1..Len(exts) |-> langMap(exts[i])]
      Defined(name) == name # "undefined"
  IN SelectSeq(names, Defined)

\* How many documents the splitter makes of the file's content.
DocumentsOf(path) ==
  CASE path = "src/a.ts" -> 2
    [] path = "src/c.tsx" -> 0
    [] OTHER -> 1

\* chunkWithMetadata(content, filePath, ...): one chunk per document.
ChunksOfFile(path) ==
  [k \in 1..DocumentsOf(path) |->
     [text |-> chunkWithMetadata(path, k), filePath |-> path]]

\* chunks.map((chunk, i) => ({text, chunkIndex: i, filePath, ...}))
ChunkRecords(chunks) ==
  [i \in 1..Len(chunks) |->
     [text |-> chunks[i].text, chunkIndex |-> i - 1, filePath |-> chunks[i].filePath]]

\* items.slice(0, n)
FirstN(items, n) == IF Len(items) <= n THEN items ELSE SubSeq(items, 1, n)

FetchInputs ==
  { [pc |-> "readme",
     tree |-> LET In(path) == path \in S IN SelectSeq(AllPaths, In),
     readme |-> FALSE, items |-> <<>>, next |-> 1, files |-> <<>>,
     failed |-> {}, languages |-> <<>>, chunks |-> <<>>, records |-> <<>>] :
      S \in SUBSET Range(AllPaths) }

InitFetch ==
  /\ Quiet
  /\ chatCall = NoChat
  /\ promptCall = NoPrompt
  /\ fetchCall \in FetchInputs
  /\ progressCall = NoProgress

\* fetchReadme: the first variant that answers ok; a failed request is logged
\* and the README counts as absent.
FetchReadme ==
  /\ fetchCall.pc = "readme"
  /\ \E ok \in BOOLEAN :
       fetchCall' = [fetchCall EXCEPT
                       !.pc = "tree",
                       !.readme = ok /\ "README.md" \in Range(fetchCall.tree)]
  /\ UNCHANGED <<posts, rows, status, errorText, metaBy, embeddings, task,
                 question, chunkCount, searchCall, embedCall, chatCall,
                 promptCall, progressCall>>

\* The loop over a sequence is at index i: it goes on at `during`, or is over.
LoopAt(i, over, during, after) == IF i > Len(over) THEN after ELSE during

\* The git tree request, then fileItems = blobs of a supported extension,
\* the first MAX_FILES of them.
FetchTree ==
  /\ fetchCall.pc = "tree"
  /\ \/ LET fileItems == FirstN(SelectSeq(fetchCall.tree, isSupportedFile), MAX_FILES)
        IN fetchCall' = [fetchCall EXCEPT
                           !.items = fileItems,
                           !.pc = LoopAt(1, fileItems, "file", "metadata")]
     \/ \* `Failed to fetch repository tree`
        fetchCall' = [fetchCall EXCEPT !.pc = "rejected"]
  /\ UNCHANGED <<posts, rows, status, errorText, metaBy, embeddings, task,
                 question, chunkCount, searchCall, embedCall, chatCall,
                 promptCall, progressCall>>

\* One turn of the file loop: fetchFileContent answers the content, or null
\* for a response that is not ok or a request that threw; null is skipped.
FetchFile ==
  /\ fetchCall.pc = "file"
  /\ LET item == fetchCall.items[fetchCall.next]
         to == LoopAt(fetchCall.next + 1, fetchCall.items, "file", "metadata")
     IN \/ fetchCall' = [fetchCall EXCEPT !.files = Append(@, item),
                                           !.next = @ + 1, !.pc = to]
        \/ fetchCall' = [fetchCall EXCEPT !.failed = @ \cup {item},
                                           !.next = @ + 1, !.pc = to]
  /\ UNCHANGED <<posts, rows, status, errorText, metaBy, embeddings, task,
                 question, chunkCount, searchCall, embedCall, chatCall,
                 promptCall, progressCall>>

\* embedRepository: metadata.languages = extractLanguages(repoContent.files)
DeriveMetadata ==
  /\ fetchCall.pc = "metadata"
  /\ fetchCall' = [fetchCall EXCEPT !.languages = extractLanguages(fetchCall.files),
                                    !.pc = "chunkReadme"]
  /\ UNCHANGED <<posts, rows, status, errorText, metaBy, embeddings, task,
                 question, chunkCount, searchCall, embedCall, chatCall,
                 promptCall, progressCall>>

\* if (repoContent.readme) chunks.push(...chunkWithMetadata(readme, "README.md"))
ChunkReadme ==
  /\ fetchCall.pc = "chunkReadme"
  /\ fetchCall' =
       [fetchCall EXCEPT
          !.chunks = IF fetchCall.readme THEN ChunksOfFile("README.md") ELSE <<>>,
          !.next = 1,
          !.pc = LoopAt(1, fetchCall.files, "chunkFile", "records")]
  /\ UNCHANGED <<posts, rows, status, errorText, metaBy, embeddings, task,
                 question, chunkCount, searchCall, embedCall, chatCall,
                 promptCall, progressCall>>

\* for (const file of repoContent.files) chunks.push(...chunkWithMetadata(...))
ChunkFile ==
  /\ fetchCall.pc = "chunkFile"
  /\ fetchCall' =
       [fetchCall EXCEPT
          !.chunks = @ \o ChunksOfFile(fetchCall.files[fetchCall.next]),
          !.next = @ + 1,
          !.pc = LoopAt(fetchCall.next + 1, fetchCall.files, "chunkFile", "records")]
  /\ UNCHANGED <<posts, rows, status, errorText, metaBy, embeddings, task,
                 question, chunkCount, searchCall, embedCall, chatCall,
                 promptCall, progressCall>>

\* The records handed to the store, chunkIndex the position in chunks.
BuildRecords ==
  /\ fetchCall.pc = "records"
  /\ fetchCall' = [fetchCall EXCEPT !.records = ChunkRecords(fetchCall.chunks),
                                    !.pc = "stored"]
  /\ UNCHANGED <<posts, rows, status, errorText, metaBy, embeddings, task,
                 question, chunkCount, searchCall, embedCall, chatCall,
                 promptCall, progressCall>>

NextFetch ==
  \/ FetchReadme \/ FetchTree \/ FetchFile \/ DeriveMetadata
  \/ ChunkReadme \/ ChunkFile \/ BuildRecords

SpecFetch == InitFetch /\ [][NextFetch]_vars

\* ------------------------------------------ embedRepository, onProgress
\* The same ingestion is run twice over the same collaborators: once with
\* no onProgress and once with one.  The collaborators' part is which step,
\* if any, fails; the callback's part is at which milestone, if any, it
\* throws.
Program ==
  <<"Starting analysis", "Fetching repository contents", "fetch",
    "Fetched files", "Analyzing repository structure", "chunk",
    "Created sections", "Analyzing repository", "embed",
    "Storing analysis", "delete", "store", "meta", "Successfully analyzed">>

Collaborators == {"fetch", "chunk", "embed", "delete", "store", "meta"}

\* The messages given to onProgress, the one of the catch block included.
Milestones == (Range(Program) \ Collaborators) \cup {"Error analyzing repository"}

\* The steps that throw when the collaborator fails: storeRepositoryMetadata
\* never throws.
Throwing == Collaborators \ {"meta"}

Sides == {"without", "with"}

NoRun ==
  [pc |-> "try", at |-> 1, raised |-> "", stored |-> FALSE, meta |-> FALSE,
   status |-> "processing", error |-> ""]

ProgressInputs ==
  { [pc |-> "runs", failAt |-> f, throwsAt |-> m, run |-> [side \in Sides |-> NoRun]] :
      f \in Throwing \cup {"none"}, m \in Milestones \cup {"never", "always"} }

InitProgress ==
  /\ Quiet
  /\ chatCall = NoChat
  /\ promptCall = NoPrompt
  /\ fetchCall = NoFetch
  /\ progressCall \in ProgressInputs

\* onProgress?.(message) throws: there is a callback and it throws here.
onProgress(side, message) ==
  /\ side = "with"
  /\ progressCall.throwsAt \in {message, "always"}

\* The run goes on after the step at r.at.
Advance(r) ==
  IF r.at = Len(Program) THEN [r EXCEPT !.pc = "resolved"]
  ELSE [r EXCEPT !.at = @ + 1]

\* One step of the try block: a milestone or an awaited collaborator.
TryStep(side) ==
  /\ progressCall.run[side].pc = "try"
  /\ LET r == progressCall.run[side]
         step == Program[r.at]
         after ==
           IF step \in Milestones
           THEN IF onProgress(side, step)
                THEN [r EXCEPT !.pc = "catch", !.raised = "callback"]
                ELSE Advance(r)
           ELSE IF step = progressCall.failAt
                THEN [r EXCEPT !.pc = "catch", !.raised = step]
                ELSE Advance([r EXCEPT
                                !.stored = IF step = "store" THEN TRUE
                                           ELSE IF step = "delete" THEN FALSE ELSE @,
                                !.meta = IF step = "meta" THEN TRUE ELSE @])
     IN progressCall' = [progressCall EXCEPT !.run[side] = after]
  /\ UNCHANGED <<posts, rows, status, errorText, metaBy, embeddings, task,
                 question, chunkCount, searchCall, embedCall, chatCall,
                 promptCall, fetchCall>>

\* catch (error) { onProgress?.(`Error analyzing repository: ...`); throw error }
CatchStep(side) ==
  /\ progressCall.run[side].pc = "catch"
  /\ LET r == progressCall.run[side]
     IN progressCall' =
          [progressCall EXCEPT !.run[side] =
             [r EXCEPT !.pc = "rejected",
                       !.raised = IF onProgress(side, "Error analyzing repository")
                                  THEN "callback" ELSE @]]
  /\ UNCHANGED <<posts, rows, status, errorText, metaBy, embeddings, task,
                 question, chunkCount, searchCall, embedCall, chatCall,
                 promptCall, fetchCall>>

\* The caller's then / catch: updateRepositoryStatus ready, or error with the
\* message.
SettleStep(side) ==
  /\ progressCall.run[side].pc \in {"resolved", "rejected"}
  /\ LET r == progressCall.run[side]
     IN progressCall' =
          [progressCall EXCEPT !.run[side] =
             IF r.pc = "resolved"
             THEN [r EXCEPT !.pc = "done", !.status = "ready"]
             ELSE [r EXCEPT !.pc = "done", !.status = "error", !.error = r.raised]]
  /\ UNCHANGED <<posts, rows, status, errorText, metaBy, embeddings, task,
                 question, chunkCount, searchCall, embedCall, chatCall,
                 promptCall, fetchCall>>

NextProgress ==
  \/ \E side \in Sides : TryStep(side)
  \/ \E side \in Sides : CatchStep(side)
  \/ \E side \in Sides : SettleStep(side)

SpecProgress == InitProgress /\ [][NextProgress]_vars

\* ================================================================ claims
IngestSteps == {"fetch", "chunk", "embed", "delete", "store", "meta"}

\* The background promise of run t has settled: its then/catch continuation
\* returned or threw.
Finished(t) == task[t].pc \in {"done", "unhandled"}

\* The steps of embedRepository that come after step s.
RECURSIVE Later(_)
Later(s) ==
  IF StepAfter(s) \notin IngestSteps THEN {}
  ELSE {StepAfter(s)} \cup Later(StepAfter(s))

\* C1: a repository is `ready` only if a run for it completed every step
\* without error and wrote the derived metadata to the repository record; a
\* failed metadata write is never followed by `ready`.
C1_ReadyOnlyWithMetadata ==
  \A r \in rows :
    status[r] = "ready" =>
      \E t \in Tasks :
        /\ task[t].repoId = r
        /\ task[t].raisedAt = ""
        /\ ~task[t].metaFailed
        /\ metaBy[r] = t

\* C2: a run changes the status of its repository exactly once, from
\* `processing` to `ready` or `error`: never twice, and once the run has
\* settled the one change has been made.
C2_StatusChangedExactlyOnce ==
  \A t \in Tasks :
    /\ task[t].writes <= 1
    /\ (Finished(t) /\ task[t].repoId \in rows) =>
         /\ task[t].writes = 1
         /\ status[task[t].repoId] \in {"ready", "error"}

\* C3: when a step of ingestion fails, no later step of the run executes and
\* the repository ends in `error` with the raised exception's message as its
\* error text.
C3_FailureAbortsAndIsRecorded ==
  \A t \in Tasks :
    LET r == task[t].repoId
    IN /\ task[t].raisedAt \in IngestSteps =>
            task[t].ran \cap Later(task[t].raisedAt) = {}
       /\ (Finished(t) /\ r \in rows /\ task[t].raisedAt \in IngestSteps) =>
            (status[r] = "error" /\ errorText[r] = task[t].raised)
       /\ (Finished(t) /\ r \in rows /\ task[t].metaFailed) =>
            status[r] = "error"

\* C4: every run that has settled left its repository in `ready` or `error`,
\* whatever steps and status writes failed; no run ends with the repository
\* still `processing`.
C4_SettledRunLeavesFinalStatus ==
  \A t \in Tasks :
    (Finished(t) /\ task[t].repoId \in rows) =>
      status[task[t].repoId] \in {"ready", "error"}

\* The run t is between its delete and the end of its last insert batch.
InReplaceAll(t) == task[t].pc = "store"

\* C5: while a run is between its delete and the end of its last insert
\* batch, no other run for the same repository id is at a delete or an insert;
\* runs for different ids are not restricted.
C5_ReplaceAllNotInterleaved ==
  \A t1 \in Tasks, t2 \in Tasks :
    (t1 # t2 /\ InReplaceAll(t1) /\ task[t2].pc \in {"delete", "store"}) =>
      task[t1].repoId # task[t2].repoId

C5_Witness ==
  \E t1 \in Tasks, t2 \in Tasks :
    /\ t1 # t2
    /\ InReplaceAll(t1) /\ task[t1].i > 0
    /\ InReplaceAll(t2) /\ task[t2].i > 0
    /\ task[t1].repoId # task[t2].repoId

\* C6: a question that passed the `ready` check reads, at its search, the
\* complete chunk set of one finished delete-then-insert: never an emptied,
\* partly inserted or mixed set.
C6_SearchReadsSettledChunks ==
  \A q \in Questions :
    ("search" \in question[q].calls /\ question[q].seen = "ready") =>
      question[q].settled

C6_Witness ==
  \E q \in Questions :
    /\ "search" \in question[q].calls
    /\ question[q].seen = "ready"
    /\ question[q].pc = "generate"
    /\ getEmbeddingCount(question[q].repoId) > batchSize

WholeChunkSet(r) ==
  \/ embeddings[r] = {}
  \/ \E e \in embeddings[r] : embeddings[r] = AllBatches(e.run, e.of)

\* C8: a run with a failed insert batch ends with its repository in `error`,
\* and no repository is `ready` while it holds only part of the chunks of the
\* run that wrote them.
C8_FailedBatchEndsInError ==
  /\ \A t \in Tasks :
       (Finished(t) /\ task[t].raisedAt = "store" /\ task[t].repoId \in rows) =>
         status[task[t].repoId] = "error"
  /\ \A r \in rows : status[r] = "ready" => WholeChunkSet(r)

\* C9: a question for a repository seen as `processing` or `error` is
\* rejected at once: no embedding, search or generation call is made and no
\* user or assistant message is persisted.
C9_NotReadyIsRejected ==
  \A q \in Questions :
    question[q].seen \in {"processing", "error"} =>
      /\ question[q].pc = "notReady"
      /\ question[q].calls = {}
      /\ ~question[q].userMessage
      /\ ~question[q].assistantMessage

C9_Witness ==
  \E q \in Questions :
    /\ question[q].pc = "notReady"
    /\ question[q].seen = "processing"
    /\ \E t \in Tasks : task[t].repoId = question[q].repoId /\ InReplaceAll(t)

\* C10: a run whose embedding step failed has issued no delete and no insert
\* and has written no metadata: the stored chunks and the metadata of its
\* repository are as before the run, and its status is `processing` until it
\* becomes `error`.
C10_EmbedFailureChangesOnlyStatus ==
  \A t \in Tasks :
    task[t].raisedAt = "embed" =>
      /\ task[t].ran \cap {"delete", "store", "meta"} = {}
      /\ task[t].repoId \in rows =>
           /\ embeddings[task[t].repoId] = {}
           /\ metaBy[task[t].repoId] = 0
           /\ status[task[t].repoId] \in {"processing", "error"}
           /\ (task[t].pc = "done" => status[task[t].repoId] = "error")

C10_Witness ==
  \E t \in Tasks :
    /\ task[t].raisedAt = "embed"
    /\ task[t].pc = "done"
    /\ task[t].repoId \in rows
    /\ status[task[t].repoId] = "error"
    /\ errorText[task[t].repoId] \in EmbedErrors
\* The background promise of run t exists and has not settled.
InFlight(t) == task[t].pc \in IngestSteps \cup {"resolved", "rejected"}

\* C11: once the repository of a run in flight is deleted, no step of the run
\* stores a chunk, a status or a row for the deleted id, and the run does not
\* end in an unhandled failure.
C11_DeletedRepositoryRunEndsQuietly ==
  [][\A t \in Tasks :
       (InFlight(t) /\ task[t].repoId \notin rows) =>
         /\ task'[t].pc # "unhandled"
         /\ task[t].repoId \notin rows'
         /\ embeddings'[task[t].repoId] = {}
         /\ status'[task[t].repoId] = "none"]_vars

\* C12: a run waiting for the embedding provider eventually settles, and a
\* question waiting for the embedding or the generation provider eventually
\* gets its response, whether or not the provider ever answers.
C12_ProviderCallIsBounded ==
  /\ \A t \in Tasks : Running(t, "embed") ~> Finished(t)
  /\ \A q \in Questions :
       (Asking(q, "embedQuery") \/ Asking(q, "generate")) ~>
         question[q].pc \in {"done", "serverError"}
\* The call of searchSimilarChunks has returned its results.
Searched == searchCall.pc \in {"found", "noRelevant", "prompted"}

\* C13: on the rpc path and on the fallback path, a search returns at most
\* `limit` results, none with a similarity below the threshold, in order of
\* non-increasing similarity.
C13_SearchResultsBoundedFilteredSorted ==
  Searched =>
    LET res == searchCall.results
    IN /\ Len(res) <= searchCall.limit
       /\ \A i \in 1..Len(res) : res[i].similarity >= searchCall.threshold
       /\ \A i \in 1..Len(res), j \in 1..Len(res) :
            i < j => res[i].similarity >= res[j].similarity

C13_Witness ==
  /\ searchCall.pc = "found"
  /\ searchCall.path = "fallback"
  /\ Len(searchCall.results) = searchCall.limit
  /\ searchCall.limit > 1
  /\ \E x \in searchCall.table :
       x.repository_id = searchCall.repoId /\ x.sim < searchCall.threshold

\* C14: what the fallback returns is what match_embeddings may return for the
\* same table, repository, limit and threshold.
C14_FallbackRanksAsServer ==
  (searchCall.pc = "found" /\ searchCall.path = "fallback") =>
    \E res \in match_embeddings(searchCall.table, searchCall.repoId,
                                searchCall.threshold, searchCall.limit) :
      searchCall.results = [i \in 1..Len(res) |-> SimilarChunk(res[i])]

\* The stored rows whose text is the given chunk text.
RowsWithText(text) == {x \in searchCall.table : x.text = text}

\* C15: every result of a search, and every section of the context built from
\* the results, is a chunk stored for the repository that was searched.
C15_SearchStaysInRepository ==
  /\ \A i \in 1..Len(searchCall.results) :
       \A x \in RowsWithText(searchCall.results[i].chunk_text) :
         x.repository_id = searchCall.repoId
  /\ \A i \in 1..Len(searchCall.context) :
       \A x \in RowsWithText(searchCall.context[i].body) :
         x.repository_id = searchCall.repoId

C15_Witness ==
  /\ searchCall.pc = "prompted"
  /\ searchCall.path = "fallback"
  /\ \E x \in searchCall.table :
       /\ x.repository_id # searchCall.repoId
       /\ \A i \in 1..Len(searchCall.results) :
            x.sim > searchCall.results[i].similarity

NoRelevantResponse == ErrorResponse(QueryError(NoRelevantText))

\* C16: a question whose search returned no chunk does not call the
\* generation provider and is answered with the no-relevant-sections message,
\* which no failure of the embedding or generation provider is answered with.
C16_NoRelevantContentIsDistinct ==
  \A q \in Questions :
    /\ question[q].outcome = "noRelevant" =>
         /\ "generate" \notin question[q].calls
         /\ question[q].response = NoRelevantResponse
    /\ question[q].outcome \in {"embedFailed", "generateFailed"} =>
         question[q].response # NoRelevantResponse

C16_Witness ==
  \E q \in Questions :
    /\ question[q].outcome = "noRelevant"
    /\ ~question[q].empty
    /\ question[q].assistantMessage
    /\ question[q].pc = "done"

C18_OneVectorPerText ==
  /\ (embedCall.kind = "documents" /\ embedCall.pc \in {"embedded", "stored"}) =>
       Len(embedCall.vectors) = embedCall.n
  /\ \A i \in 1..Len(embedCall.stored) :
       embedCall.stored[i].embedding.for = embedCall.stored[i].text

\* C19: every stored vector and every query vector searched with has length
\* EMBEDDING_DIMENSION, and a provider answer holding a vector of another
\* length, at any position, fails the call with nothing stored or searched.
C19_EveryVectorHasTheDimension ==
  /\ \A i \in 1..Len(embedCall.stored) :
       embedCall.stored[i].embedding.dim = EMBEDDING_DIMENSION
  /\ embedCall.searched => embedCall.vectors[1].dim = EMBEDDING_DIMENSION
  /\ (\E i \in 1..Len(embedCall.reply) :
        embedCall.reply[i].dim # EMBEDDING_DIMENSION) =>
       /\ embedCall.pc = "failed"
       /\ embedCall.stored = <<>>
       /\ ~embedCall.searched

C19_Witness ==
  /\ embedCall.kind = "documents"
  /\ embedCall.pc = "failed"
  /\ Len(embedCall.reply) = embedCall.n
  /\ embedCall.n > 1
  /\ embedCall.reply[1].dim = EMBEDDING_DIMENSION
  /\ embedCall.reply[embedCall.n].dim # EMBEDDING_DIMENSION

\* The text has the message in it: every part of the message is a part of it.
Contains(text, message) ==
  /\ message # <<>>
  /\ \A i \in 1..Len(message) : \E j \in 1..Len(text) : text[j] = message[i]

\* The response speaks of the API key, of the quota, or of neither.
Category(response) ==
  IF includes(response, "API key") THEN "AuthError"
  ELSE IF includes(response, "quota") THEN "QuotaExceeded"
  ELSE "Unknown"

\* C21: a failure of the generation provider is answered in the category of
\* its message ("API key": AuthError, "quota": QuotaExceeded, else Unknown),
\* and the response never holds the provider's own message.
C21_ProviderErrorIsTranslated ==
  \A q \in Questions :
    (question[q].outcome = "generateFailed" /\ question[q].raw # <<>>) =>
      /\ Category(question[q].response) = Category(question[q].raw)
      /\ ~Contains(question[q].response, question[q].raw)

\* The content of the error response written for request a.
ErrorOf(a) == [kind |-> "error", of |-> a]

\* The content of the question of request a.
QuestionOf(a) == [kind |-> "question", of |-> a]

\* C22: a failed request writes one message, its own error response, and that
\* response is in no other request's input to the generation provider; the
\* repository's status, metadata and chunks are as they were.
C22_FailureStaysWithItsQuestion ==
  /\ \A a \in Asks :
       Cardinality({i \in 1..Len(chatCall.messages) :
                      chatCall.messages[i].content = ErrorOf(a)}) <= 1
  /\ \A a \in Asks, b \in Asks :
       (a # b /\ chatCall.ask[a].outcome = "failed") =>
         \A i \in 1..Len(chatCall.ask[b].sent) :
           chatCall.ask[b].sent[i].content # ErrorOf(a)
  /\ Quiet

\* Where the row with content c stands in table messages.
PositionOf(c) ==
  CHOOSE i \in 1..Len(chatCall.messages) : chatCall.messages[i].content = c

\* C24: the messages given to the generation provider are at most the last
\* ten earlier turns, in the order of the chat, and then the question, which
\* is the last message and no other.
C24_PromptIsHistoryThenQuestionOnce ==
  \A a \in Asks :
    LET sent == chatCall.ask[a].sent
        n == Len(sent)
    IN n > 0 =>
         /\ n <= promptTurns + 1
         /\ sent[n] = [role |-> "user", content |-> QuestionOf(a)]
         /\ \A i \in 1..n - 1 : sent[i].content # QuestionOf(a)
         /\ \A i \in 1..n - 1, j \in 1..n - 1 :
              i < j => PositionOf(sent[i].content) < PositionOf(sent[j].content)

\* The rows stored for the repository that is searched.
StoredForRepository ==
  {x \in searchCall.table : x.repository_id = searchCall.repoId}

\* C25: with the floor 0.0 that queryRepository passes, a search over n stored
\* chunks returns min(limit, n) results, the best ranked of all n, on the rpc
\* path and on the fallback path.
C25_ZeroFloorExcludesNothing ==
  (Searched /\ searchCall.threshold = 0) =>
    /\ Len(searchCall.results) = Min(searchCall.limit, Cardinality(StoredForRepository))
    /\ \E res \in TopK(StoredForRepository, searchCall.limit) :
         searchCall.results = [i \in 1..Len(res) |-> SimilarChunk(res[i])]

\* The least number of tokens that hold the characters, four to a token.
TokensFor(chars) == CHOOSE t \in 0..chars : 4 * t >= chars /\ 4 * (t - 1) < chars

\* The tokens of the first k fragments given to truncateContext.
RECURSIVE PrefixTokens(_)
PrefixTokens(k) ==
  IF k = 0 THEN 0 ELSE PrefixTokens(k - 1) + TokensFor(promptCall.chunks[k].chars)

\* The characters of the chunk texts in the first k sections of a context.
RECURSIVE BodyChars(_, _)
BodyChars(context, k) ==
  IF k = 0 THEN 0 ELSE BodyChars(context, k - 1) + context[k].body.chars

\* C26: the context that queryRepository puts into the system prompt is
\* within MAX_CONTEXT_TOKENS, however many chunks were retrieved and
\* whatever their size.
C26_ContextWithinTokenBudget ==
  (promptCall.pc = "prompted") =>
    TokensFor(BodyChars(promptCall.context, Len(promptCall.context)))
      <= MAX_CONTEXT_TOKENS

\* C27: truncateContext returns the longest prefix of the fragments whose
\* estimates ceil(length / 4) sum to at most the budget: whole fragments, in
\* order, nothing after the first one that overflows.
C27_TruncateKeepsLongestPrefix ==
  (promptCall.pc = "truncated") =>
    \E k \in 0..Len(promptCall.chunks) :
      /\ promptCall.result = SubSeq(promptCall.chunks, 1, k)
      /\ PrefixTokens(k) <= promptCall.maxTokens
      /\ k < Len(promptCall.chunks) => PrefixTokens(k + 1) > promptCall.maxTokens

C27_Witness ==
  /\ promptCall.pc = "truncated"
  /\ Len(promptCall.result) = 1
  /\ Len(promptCall.chunks) = 3
  /\ promptCall.chunks[1].chars % 4 = 1
  /\ PrefixTokens(1) + TokensFor(promptCall.chunks[3].chars) <= promptCall.maxTokens
  /\ TokensFor(promptCall.chunks[3].chars) > 0

\* The records cut from the file at the given path.
RecordsOf(path) ==
  {i \in 1..Len(fetchCall.records) : fetchCall.records[i].filePath = path}

\* The sources of a run: the files it fetched, and the README it fetched.
Sources ==
  Range(fetchCall.files) \cup (IF fetchCall.readme THEN {"README.md"} ELSE {})

\* C23: the records of a run are the README's chunks, then each fetched
\* file's chunks in listing order, every source cut once, with ordinals 0 to
\* n - 1 in that order (README.md 1 + src/a.ts 2 + src/b.ts 1: 4 records).
C23_ChunksOncePerSourceInOrder ==
  fetchCall.pc = "stored" =>
    /\ \A i \in 1..Len(fetchCall.records) : fetchCall.records[i].chunkIndex = i - 1
    /\ \A path \in Range(AllPaths) :
         Cardinality(RecordsOf(path)) =
           IF path \in Sources THEN DocumentsOf(path) ELSE 0
    /\ \A i \in RecordsOf("README.md") :
         \A j \in 1..Len(fetchCall.records) : j < i => j \in RecordsOf("README.md")

\* C28: when the fetch of a listed file fails, the run ends in an error; only
\* a missing README and an empty file list are passed over.
C28_CollaboratorFailureIsAnError ==
  fetchCall.failed # {} => fetchCall.pc = "rejected"

\* C30: the language list has every name once, and only names that the
\* extension of some fetched file is mapped to.
C30_LanguagesListedOnce ==
  LET languages == fetchCall.languages
  IN /\ \A i \in 1..Len(languages), j \in 1..Len(languages) :
          i # j => languages[i] # languages[j]
     /\ \A i \in 1..Len(languages) :
          \E k \in 1..Len(fetchCall.files) :
            langMap(ExtensionOf(fetchCall.files[k])) = languages[i]

\* What a settled run left behind.
OutcomeOf(side) ==
  LET r == progressCall.run[side]
  IN [status |-> r.status, error |-> r.error, stored |-> r.stored, meta |-> r.meta]

\* C29: over the same collaborators, the run with a progress callback ends
\* with the status, error text, stored chunks and metadata of the run without
\* one, whatever the callback does at any milestone.
C29_ProgressCallbackChangesNothing ==
  (progressCall.run["with"].pc = "done" /\ progressCall.run["without"].pc = "done") =>
    OutcomeOf("with") = OutcomeOf("without")
====
